---- MODULE Spec2Model ----
(***************************************************************************)
(* Rendering of table rows (docx-core/src/documents/elements/table_row.rs) *)
(* through the Render trait and render_children                            *)
(* (docx-core/src/documents/render.rs).                                    *)
(*                                                                         *)
(* A text (Rust String) is a sequence of one-character strings, so that    *)
(* split, join and format! are computed character by character.            *)
(***************************************************************************)
EXTENDS Integers, Sequences, FiniteSets, TLC

VARIABLES
    inCells,   \* the Vec<TableCell> handed to TableRow::new
    row,       \* the TableRow value: cells, has_numbering, property
    ret        \* the value returned by the most recent rendering call

vars == <<inCells, row, ret>>

----------------------------------------------------------------------------
(* Bounds of the model *)

\* most cells in a row
MaxCells == 2
\* most content elements (paragraphs) in all the cells of a row together
MaxLeaves == 2
\* most builder calls applied to a row
MaxBuilds == 1

----------------------------------------------------------------------------
(* Texts *)

NL == "\n"

\* the texts a cell's content element renders to: "a\nb" and "c"
Texts == { <<"a", NL, "b">>, <<"c">> }

\* serde_json::Value::Null
Null == "Null"

SeqsUpTo(S, n) == UNION { [1..k -> S] : k \in 0..n }

RECURSIVE SumLen(_)
SumLen(cs) == IF cs = <<>> THEN 0 ELSE Len(Head(cs).children) + SumLen(Tail(cs))

\* [T]::join(sep) on a Vec<String>
RECURSIVE join(_, _)
join(v, sep) ==
    IF Len(v) = 0 THEN <<>>
    ELSE IF Len(v) = 1 THEN v[1]
    ELSE v[1] \o sep \o join(Tail(v), sep)

\* str::split("\n").map(String::from).collect(): the pieces between the
\* newlines; a text without newline (the empty text too) is one piece
RECURSIVE split(_)

\* split as a splitter that yields no piece for an empty text would do it
split_NoEmptyPiece(s) ==
    IF s = <<>> THEN <<>>
    ELSE IF \A i \in 1..Len(s) : s[i] # NL THEN << s >>
    ELSE LET k == CHOOSE i \in 1..Len(s) :
                     s[i] = NL /\ \A j \in 1..(i - 1) : s[j] # NL
         IN  << SubSeq(s, 1, k - 1) >> \o split(SubSeq(s, k + 1, Len(s)))

split(s) ==
    IF \A i \in 1..Len(s) : s[i] # NL THEN << s >>
    ELSE LET k == CHOOSE i \in 1..Len(s) :
                     s[i] = NL /\ \A j \in 1..(i - 1) : s[j] # NL
         IN  << SubSeq(s, 1, k - 1) >> \o split(SubSeq(s, k + 1, Len(s)))

\* Iterator::max over the lengths; None on an empty iterator
NoMax == -1
\* the shortest cell instead of the longest
max_len_Min(v) ==
    IF Len(v) = 0 THEN NoMax
    ELSE CHOOSE m \in { Len(v[i]) : i \in 1..Len(v) } :
             \A i \in 1..Len(v) : m <= Len(v[i])

max_len(v) ==
    IF Len(v) = 0 THEN NoMax
    ELSE CHOOSE m \in { Len(v[i]) : i \in 1..Len(v) } :
             \A i \in 1..Len(v) : Len(v[i]) <= m

\* Vec::get(i).cloned().unwrap_or_default(), i counted from 0
get_or_default(c, i) == IF i + 1 <= Len(c) THEN c[i + 1] ELSE <<>>

----------------------------------------------------------------------------
(* JsonRender and the Render trait *)

\* json_render!(type, ascii): no children, Null properties
json_render(type, ascii) ==
    [type |-> type, ascii |-> ascii, children |-> <<>>, properties |-> Null]

\* a content element of a cell (a leaf for this model): its type tag and text
Content_render_ascii_json(self) == json_render(self.type, self.ascii)

RECURSIVE render_ascii_json(_)

\* render_ascii overridden for rows by a traversal of its own
render_ascii_Own(self) ==
    IF self.kind = "TableRow"
    THEN join([j \in 1..Len(self.cells) |-> render_ascii_json(self.cells[j]).ascii], <<NL>>)
    ELSE render_ascii_json(self).ascii

\* Render::render_ascii, the trait's default method
render_ascii(self) == render_ascii_json(self).ascii

\* render_children joining with a newline whatever the separator
render_children_FixedSep(children, children_join, type, properties) ==
    LET children_json == [i \in 1..Len(children) |-> render_ascii_json(children[i])]
        ascii == join([i \in 1..Len(children_json) |-> children_json[i].ascii], <<NL>>)
    IN  [type |-> type, children |-> children_json, ascii |-> ascii,
         properties |-> properties]

\* render_children dropping the caller's properties
render_children_NoProps(children, children_join, type, properties) ==
    LET children_json == [i \in 1..Len(children) |-> render_ascii_json(children[i])]
        ascii == join([i \in 1..Len(children_json) |-> children_json[i].ascii],
                      children_join)
    IN  [type |-> type, children |-> children_json, ascii |-> ascii,
         properties |-> Null]

render_children(children, children_join, type, properties) ==
    LET children_json == [i \in 1..Len(children) |-> render_ascii_json(children[i])]
        ascii == join([i \in 1..Len(children_json) |-> children_json[i].ascii],
                      children_join)
    IN  [type |-> type, children |-> children_json, ascii |-> ascii,
         properties |-> properties]

\* a cell that shows a blank for no content
TableRowChild_render_ascii_json_Blank(self) ==
    IF Len(self.cell.children) = 0 THEN json_render("TableCell", <<" ">>)
    ELSE render_children(self.cell.children, <<NL>>, "TableCell", Null)

\* impl Render for TableRowChild
TableRowChild_render_ascii_json(self) ==
    render_children(self.cell.children, <<NL>>, "TableCell", Null)

\* format!("| {} |", ascii_row.join(" | "))
format_row(ascii_row) == <<"|", " ">> \o join(ascii_row, <<" ", "|", " ">>) \o <<" ", "|">>

\* the row rendering without the let-else for a row of no cells
TableRow_render_ascii_json_NoElse(self) ==
    LET child_ascii == [j \in 1..Len(self.cells) |-> split(render_ascii(self.cells[j]))]
        max_rows == IF Len(child_ascii) = 0 THEN 0 ELSE max_len(child_ascii)
        ascii_rows == [i \in 1..max_rows |->
                          format_row([j \in 1..Len(child_ascii) |->
                                         get_or_default(child_ascii[j], i - 1)])]
    IN  json_render("TableRow", join(ascii_rows, <<NL>>))

\* impl Render for TableRow
TableRow_render_ascii_json(self) ==
    LET child_ascii == [j \in 1..Len(self.cells) |-> split(render_ascii(self.cells[j]))]
        max_rows == max_len(child_ascii)
        ascii_rows == [i \in 1..max_rows |->
                          format_row([j \in 1..Len(child_ascii) |->
                                         get_or_default(child_ascii[j], i - 1)])]
    IN  IF max_rows = NoMax THEN json_render("TableRow", <<"|", " ", "|">>)
        ELSE json_render("TableRow", join(ascii_rows, <<NL>>))

\* dispatch of Render::render_ascii_json on the implementing type
render_ascii_json(self) ==
    CASE self.kind = "TableRow"  -> TableRow_render_ascii_json(self)
      [] self.kind = "TableCell" -> TableRowChild_render_ascii_json(self)
      [] self.kind = "Content"   -> Content_render_ascii_json(self)

----------------------------------------------------------------------------
(* TableRow *)

\* TableRowChild::TableCell(cell)
TableRowChild_TableCell(c) == [kind |-> "TableCell", cell |-> c]

\* TableRowProperty::new(); a property is the chain of builder calls on it
TableRowProperty_new == <<>>

TableRow_new(cells) ==
    [kind          |-> "TableRow",
     cells         |-> [i \in 1..Len(cells) |-> TableRowChild_TableCell(cells[i])],
     property      |-> TableRowProperty_new,
     has_numbering |-> \E i \in 1..Len(cells) : cells[i].has_numbering]

\* a builder that rebuilds the row and loses has_numbering
with_property_Reset(self, method, arg) ==
    [self EXCEPT !.property = Append(self.property, <<method, arg>>),
                 !.has_numbering = FALSE]

\* self.property = self.property.<method>(<arg>); self
with_property(self, method, arg) ==
    [self EXCEPT !.property = Append(self.property, <<method, arg>>)]

\* the inputs of the model
Contents == { [kind |-> "Content", type |-> "Paragraph", ascii |-> t] : t \in Texts }
TableCells ==
    { [children |-> ch, has_numbering |-> b] :
          ch \in SeqsUpTo(Contents, MaxLeaves), b \in BOOLEAN }
InputRows == { cs \in SeqsUpTo(TableCells, MaxCells) : SumLen(cs) <= MaxLeaves }

U32s == {2}
F32s == {10}
HeightRules == {"Exact"}
Deletes == {"del"}
Inserts == {"ins"}

\* separator, type tag and properties handed to render_children
AggArgs == { << <<",", " ">>, "Paragraph", "{style}" >>, << <<>>, "Document", Null >> }

NoRet == [op |-> "none", idx |-> 0, args |-> <<>>, val |-> <<>>]

Init ==
    /\ inCells \in InputRows
    /\ row = TableRow_new(inCells)
    /\ ret = NoRet

CanBuild == Len(row.property) < MaxBuilds

grid_after ==
    \E v \in U32s :
        /\ CanBuild
        /\ row' = with_property(row, "grid_after", v)
        /\ UNCHANGED <<inCells, ret>>

width_after ==
    \E w \in F32s :
        /\ CanBuild
        /\ row' = with_property(row, "width_after", w)
        /\ UNCHANGED <<inCells, ret>>

grid_before ==
    \E v \in U32s :
        /\ CanBuild
        /\ row' = with_property(row, "grid_before", v)
        /\ UNCHANGED <<inCells, ret>>

width_before ==
    \E w \in F32s :
        /\ CanBuild
        /\ row' = with_property(row, "width_before", w)
        /\ UNCHANGED <<inCells, ret>>

row_height ==
    \E h \in F32s :
        /\ CanBuild
        /\ row' = with_property(row, "row_height", h)
        /\ UNCHANGED <<inCells, ret>>

height_rule ==
    \E r \in HeightRules :
        /\ CanBuild
        /\ row' = with_property(row, "height_rule", r)
        /\ UNCHANGED <<inCells, ret>>

delete ==
    \E d \in Deletes :
        /\ CanBuild
        /\ row' = with_property(row, "delete", d)
        /\ UNCHANGED <<inCells, ret>>

insert ==
    \E i \in Inserts :
        /\ CanBuild
        /\ row' = with_property(row, "insert", i)
        /\ UNCHANGED <<inCells, ret>>

cant_split ==
    /\ CanBuild
    /\ row' = with_property(row, "cant_split", Null)
    /\ UNCHANGED <<inCells, ret>>

\* a rendering that drains the cells it goes over
RowRenderJson_Drain ==
    /\ ret' = [op |-> "render_ascii_json", idx |-> 0, args |-> <<>>,
               val |-> render_ascii_json(row)]
    /\ row' = [row EXCEPT !.cells = <<>>]
    /\ UNCHANGED inCells

\* row.render_ascii_json()
RowRenderJson ==
    /\ ret' = [op |-> "render_ascii_json", idx |-> 0, args |-> <<>>,
               val |-> render_ascii_json(row)]
    /\ UNCHANGED <<inCells, row>>

\* row.render_ascii()
RowRenderAscii ==
    /\ ret' = [op |-> "render_ascii", idx |-> 0, args |-> <<>>,
               val |-> render_ascii(row)]
    /\ UNCHANGED <<inCells, row>>

\* row.cells[i].render_ascii_json()
CellRenderJson ==
    \E i \in 1..Len(row.cells) :
        /\ ret' = [op |-> "render_ascii_json", idx |-> i, args |-> <<>>,
                   val |-> render_ascii_json(row.cells[i])]
        /\ UNCHANGED <<inCells, row>>

\* row.cells[i].render_ascii()
CellRenderAscii ==
    \E i \in 1..Len(row.cells) :
        /\ ret' = [op |-> "render_ascii", idx |-> i, args |-> <<>>,
                   val |-> render_ascii(row.cells[i])]
        /\ UNCHANGED <<inCells, row>>

\* render_children(&cell.children, sep, type, &properties), called directly
\* with the arguments another composite would pass
RenderChildren ==
    \E i \in 1..Len(row.cells), a \in AggArgs :
        /\ ret' = [op |-> "render_children", idx |-> i, args |-> a,
                   val |-> render_children(row.cells[i].cell.children, a[1], a[2], a[3])]
        /\ UNCHANGED <<inCells, row>>

\* the life of a row: TableRow::new, then builder calls and renderings of the row
Next ==
    \/ grid_after
    \/ width_after
    \/ grid_before
    \/ width_before
    \/ row_height
    \/ height_rule
    \/ delete
    \/ insert
    \/ cant_split
    \/ RowRenderJson
    \/ RowRenderAscii

Spec == Init /\ [][Next]_vars

\* the rendering calls alone: on the row, on its cells, and render_children
NextRender ==
    \/ RowRenderJson
    \/ RowRenderAscii
    \/ CellRenderJson
    \/ CellRenderAscii
    \/ RenderChildren

SpecRender == Init /\ [][NextRender]_vars

----------------------------------------------------------------------------
(* What the properties below speak of *)

IsRender == ret.op \in {"render_ascii", "render_ascii_json", "render_children"}
OnRow == IsRender /\ ret.idx = 0
OnCell == IsRender /\ ret.idx > 0

\* the text of the returned value: the String itself, or the node's ascii
RetText == IF ret.op = "render_ascii" THEN ret.val ELSE ret.val.ascii

\* the content elements the call on a cell went over
RetChildren == row.cells[ret.idx].cell.children

\* the lines of a text, read off the positions of its newlines
NLpos(t) == { i \in 1..Len(t) : t[i] = NL }
LineCount(t) == Cardinality(NLpos(t)) + 1
KthNL(t, k) == CHOOSE i \in NLpos(t) : Cardinality({ j \in NLpos(t) : j <= i }) = k
LineOf(t, k) ==
    SubSeq(t, IF k = 1 THEN 1 ELSE KthNL(t, k - 1) + 1,
              IF k = LineCount(t) THEN Len(t) ELSE KthNL(t, k) - 1)

\* f[1] + sep + f[2] + sep + ... + f[n], built from the left
Glue(f, n, sep) ==
    LET G[k \in 0..n] ==
            IF k = 0 THEN <<>>
            ELSE IF k = 1 THEN f[1]
            ELSE G[k - 1] \o sep \o f[k]
    IN  G[n]

\* the text of cell j of the row
CellText(j) == render_ascii(row.cells[j])
MaxLines == CHOOSE m \in { LineCount(CellText(j)) : j \in 1..Len(row.cells) } :
                \A j \in 1..Len(row.cells) : LineCount(CellText(j)) <= m
Field(j, i) == IF i <= LineCount(CellText(j)) THEN LineOf(CellText(j), i) ELSE <<>>
GridLine(i) ==
    <<"|", " ">>
        \o Glue([j \in 1..Len(row.cells) |-> Field(j, i)], Len(row.cells), <<" ", "|", " ">>)
        \o <<" ", "|">>
Grid == Glue([i \in 1..MaxLines |-> GridLine(i)], MaxLines, <<NL>>)

EmptyRowText == <<"|", " ", "|">>
EmptyCellRowText == <<"|", " ", " ", "|">>

----------------------------------------------------------------------------
(* Properties *)

\* C1: a row of k >= 1 cells renders to max(|L1|,...,|Lk|) lines joined by
\* "\n"; line i is "| " + the k fields joined by " | " + " |", field j being
\* line i of cell j or the empty text; ["a\nb", "c"] gives "| a | c |\n| b |  |"
C1_RowGrid ==
    (OnRow /\ Len(row.cells) >= 1) =>
        /\ RetText = Grid
        /\ LineCount(RetText) = MaxLines
        /\ (Len(row.cells) = 2 /\ CellText(1) = <<"a", NL, "b">> /\ CellText(2) = <<"c">>)
               => RetText = <<"|", " ", "a", " ", "|", " ", "c", " ", "|", NL,
                              "|", " ", "b", " ", "|", " ", " ", "|">>

C1_Witness ==
    /\ ret.op = "render_ascii" /\ ret.idx = 0
    /\ Len(row.cells) = 2
    /\ CellText(1) = <<"a", NL, "b">> /\ CellText(2) = <<"c">>

\* C2: the children of the node returned by the row's render_ascii_json are
\* the cells' own nodes in column order, as many as the row has cells
C2_RowChildren ==
    (ret.op = "render_ascii_json" /\ ret.idx = 0) =>
        /\ Len(ret.val.children) = Len(row.cells)
        /\ \A j \in 1..Len(row.cells) :
               ret.val.children[j] = render_ascii_json(row.cells[j])

\* C3: a row of no cells renders as the single line "| |", with type tag
\* "TableRow"
C3_EmptyRow ==
    (OnRow /\ Len(row.cells) = 0) =>
        /\ RetText = EmptyRowText
        /\ LineCount(RetText) = 1
        /\ ret.op = "render_ascii_json" => ret.val.type = "TableRow"

C3_Witness == ret.op = "render_ascii_json" /\ ret.idx = 0 /\ Len(row.cells) = 0

\* C4: the text of the node render_children returns is t1 + s + ... + tn for
\* the children's texts t1..tn and the separator s: empty for n = 0, t1 alone
\* for n = 1
C4_JoinedText ==
    ret.op = "render_children" =>
        LET n == Len(RetChildren)
            t == [k \in 1..n |-> RetChildren[k].ascii]
        IN  /\ ret.val.ascii = Glue(t, n, ret.args[1])
            /\ n = 0 => ret.val.ascii = <<>>
            /\ n = 1 => ret.val.ascii = t[1]

C4_Witness ==
    /\ ret.op = "render_children"
    /\ Len(RetChildren) = 2
    /\ ret.args[1] = <<",", " ">>

\* C5: the children of the node render_children returns are the children's
\* render_ascii_json results in input order, and its type and properties are
\* the caller's arguments
C5_ChildrenKept ==
    ret.op = "render_children" =>
        /\ Len(ret.val.children) = Len(RetChildren)
        /\ \A k \in 1..Len(RetChildren) :
               ret.val.children[k] = render_ascii_json(RetChildren[k])
        /\ ret.val.type = ret.args[2]
        /\ ret.val.properties = ret.args[3]

C5_Witness ==
    /\ ret.op = "render_children"
    /\ Len(RetChildren) = 2
    /\ RetChildren[1] # RetChildren[2]
    /\ ret.args[3] # Null

\* C6: render_ascii returns the ascii field of the node render_ascii_json
\* returns on the same element, for a row and for a row's child
C6_AsciiOfJson ==
    ret.op = "render_ascii" =>
        ret.val = render_ascii_json(IF ret.idx = 0 THEN row ELSE row.cells[ret.idx]).ascii

C6_Witness ==
    /\ ret.op = "render_ascii" /\ ret.idx = 0
    /\ Len(row.cells) = 2
    /\ LineCount(ret.val) = 2

EmptyComposite ==
    IF ret.idx = 0 THEN Len(row.cells) = 0 ELSE Len(RetChildren) = 0

\* C7 as stated: every composite rendered over no children gives a non-empty
\* text
C7_NonEmptyText == (IsRender /\ EmptyComposite) => RetText # <<>>

\* C7 as amended: a row of no cells gives a non-empty text; a cell of no
\* content, and render_children over no children, give the empty text and a
\* node of no children
C7_EmptyComposite ==
    (IsRender /\ EmptyComposite) =>
        IF ret.idx = 0 THEN RetText # <<>>
        ELSE /\ RetText = <<>>
             /\ ret.op # "render_ascii" => ret.val.children = <<>>

C7_Witness ==
    /\ ret.op = "render_children" /\ ret.idx > 0
    /\ EmptyComposite
    /\ ret.args[3] # Null

OneEmptyCell == Len(row.cells) = 1 /\ Len(row.cells[1].cell.children) = 0

\* C8 as stated: a row of one cell of no content renders as "| |"
C8_PlaceholderRow == (OnRow /\ OneEmptyCell) => RetText = EmptyRowText

\* C8 as amended: a row of one cell of no content renders as "|  |", the
\* empty field between "| " and " |", on a single line
C8_EmptyFieldRow ==
    (OnRow /\ OneEmptyCell) => (RetText = EmptyCellRowText /\ LineCount(RetText) = 1)

C8_Witness == ret.op = "render_ascii" /\ ret.idx = 0 /\ OneEmptyCell

\* the value r is what a rendering call on the row rw returns
Fresh(r, rw) ==
    (r.op \in {"render_ascii", "render_ascii_json"} /\ r.idx = 0) =>
        r.val = (IF r.op = "render_ascii" THEN render_ascii(rw) ELSE render_ascii_json(rw))

C10_BuildersKeepCells ==
    /\ Len(row.cells) = Len(inCells)
    /\ \A i \in 1..Len(inCells) : row.cells[i].cell = inCells[i]
    /\ row.has_numbering <=> Cardinality({ i \in 1..Len(inCells) : inCells[i].has_numbering }) >= 1
    /\ OnRow => RetText = render_ascii(TableRow_new(inCells))

C10_Witness ==
    /\ Len(row.property) >= 1
    /\ row.has_numbering
    /\ Len(row.cells) = 2
    /\ ret.op = "render_ascii" /\ ret.idx = 0

====
